---------------------------- MODULE Spec2Model ----------------------------
(***************************************************************************)
(* A model of the user-space TCP engine of src/src/tcp.rs and of the       *)
(* receive loop of src/src/main.rs.                                        *)
(*                                                                         *)
(* Sequence numbers are u32 in the program.  TLC's integers are 32-bit     *)
(* signed, so a word is modelled WordBits wide (Modulus = 2^WordBits) and  *)
(* every wrapping operation is taken modulo Modulus; the program's         *)
(* 2^32 - k is Modulus - k here.  The receive window keeps its u16 range   *)
(* and the scratch buffer of write keeps its 1500 bytes.                   *)
(***************************************************************************)
EXTENDS Integers, Sequences, FiniteSets, TLC

VARIABLES
    connections,  \* main.rs: HashMap<Quad, Connection>, as a function of Quads
    wire,         \* the datagrams handed to iface.send with success, in order
    status,       \* where the process is: "running", "io_error", "panic"
    build,        \* how the crate was built: overflow checks on / off
    last,         \* the handler that ran last: its input, exit point and result
    cmp           \* the comparator's arguments and result (SpecCmp)

vars == <<connections, wire, status, build, last, cmp>>

-----------------------------------------------------------------------------
(* Bounds of the model *)

\* word width of the model (u32 in the program)
WordBits == 29
\* sequence numbers are sampled within Near of the wrap point
Near == 1
\* receive windows 0..MaxWnd are sampled, and the u16 maximum
MaxWnd == 1
\* inbound payload lengths 0..MaxData
MaxData == 2
\* datagrams a connection's writes put on the wire in SpecWrite
MaxWire == 2

(* Program constants *)

\* let mut buf = [0u8; 1500]
BufLen == 1500
\* Ipv4Header::new(..) carries no options: 20 bytes on the wire
IpHeaderLen == 20
\* TcpHeader::new(..) carries no options: header_len() = 20
TcpHeaderLen == 20
\* conn.send.iss = 0
ISS == 0
\* conn.send.wnd = 10
SendWnd == 10
\* recv.wnd: u16
U16Max == 65535

Modulus == 2 ^ WordBits

\* u32::wrapping_add / wrapping_sub
wrapping_add(a, b) == (a + b) % Modulus
wrapping_sub(a, b) == (a - b + Modulus) % Modulus

-----------------------------------------------------------------------------
(* Sampled inputs *)

\* sequence and acknowledgment numbers on both sides of the wrap point
SeqVals == {(i + Modulus) % Modulus : i \in (0 - Near)..Near}

\* send.nxt: as accept leaves it (ISS + 2), and as later writes wrap it
SendNxts == SeqVals \cup {ISS + 2}

\* acknowledgment numbers: around the wrap point and up to accept's send.nxt
AckVals == SeqVals \cup {ISS + 2}

\* window sizes announced by a peer (u16)
WndVals == (0..MaxWnd) \cup {U16Max}

\* main.rs: Quad; two remote peers talk to the one local endpoint
Quads == {[src |-> p, dst |-> "local"] : p \in {"peer1", "peer2"}}

\* what on_packet and accept read of an inbound TCP header and its payload
Segments ==
    [syn : BOOLEAN, ack : BOOLEAN, fin : BOOLEAN,
     seq : SeqVals, ackn : AckVals, wnd : {0}, len : 0..MaxData]

\* the receive loop's inbound SYNs: the last, the first and the second
\* sequence number, announcing a closed or a one-byte window
LoopSyns ==
    [syn : {TRUE}, ack : {FALSE}, fin : {FALSE},
     seq : {Modulus - 1, 0, 1}, ackn : {0}, wnd : {0, 1}, len : {0}]

\* the receive loop's other segments: with and without ACK, acknowledging
\* what was and what was not sent, empty or carrying a byte
LoopOthers ==
    [syn : {FALSE}, ack : {TRUE}, fin : {FALSE},
     seq : {Modulus - 1, 0, 1}, ackn : {1, 2, 3}, wnd : {0}, len : {0, 1}]
    \cup
    [syn : {FALSE}, ack : {FALSE}, fin : {FALSE},
     seq : {Modulus - 1, 0, 1}, ackn : {2}, wnd : {0}, len : {0, 1}]

LoopSegments == LoopSyns \cup LoopOthers

\* room left for the payload in write's buffer after the two headers
MaxPayload == BufLen - IpHeaderLen - TcpHeaderLen

\* payload lengths given to write: short ones and those around the buffer's end
PayloadLens == (0..MaxData) \cup {MaxPayload - 1, MaxPayload, MaxPayload + 1}

-----------------------------------------------------------------------------
(* tcp.rs: is_between_wrapped *)

\* the comparator with the end bound let in when start < x
is_between_wrapped_open(start, x, end) ==
    IF start = x THEN FALSE
    ELSE IF start < x
         THEN ~(end >= start /\ end < x)
         ELSE (end > x /\ end < start)

is_between_wrapped(start, x, end) ==
    IF start = x THEN FALSE
    ELSE IF start < x
         THEN ~(end >= start /\ end <= x)
         ELSE (end > x /\ end < start)

\* the comparator as its call sites use it for inclusive bounds: the lower
\* bound moved down by one, the upper bound moved up by one, both wrapping
is_between_wrapped_inclusive(start, x, end) ==
    is_between_wrapped(wrapping_sub(start, 1), x, wrapping_add(end, 1))

-----------------------------------------------------------------------------
(* tcp.rs: the Connection *)

\* a vacant entry of the table
NoConn == [state |-> "Vacant"]

\* Connection::default()
DefaultConn ==
    [state |-> "SynRcvd",
     send  |-> [una |-> 0, nxt |-> 0, wnd |-> 0, up |-> FALSE,
                wl1 |-> 0, wl2 |-> 0, iss |-> 0],
     recv  |-> [nxt |-> 0, wnd |-> 0, up |-> FALSE, irs |-> 0],
     ip    |-> [source |-> "unset", destination |-> "unset", payload_len |-> 0],
     tcp   |-> [source_port |-> "unset", destination_port |-> "unset",
                sequence_number |-> 0, acknowledgment_number |-> 0,
                window_size |-> 0,
                syn |-> FALSE, ack |-> FALSE, fin |-> FALSE, rst |-> FALSE]]

\* tcph.sequence_number() + 1 overflows u32 (tcp.rs:93 is a plain +)
AcceptOverflows(seg) == seg.seq + 1 >= Modulus

\* accept, lines 89..130: the connection handed to write
AcceptInit(q, seg) ==
    LET rnxt == (seg.seq + 1) % Modulus
    IN  [DefaultConn EXCEPT
           !.state = "SynRcvd",
           !.recv  = [nxt |-> rnxt, wnd |-> seg.wnd, up |-> FALSE, irs |-> seg.seq],
           !.send  = [una |-> ISS, nxt |-> ISS + 1, wnd |-> SendWnd, up |-> FALSE,
                      wl1 |-> 0, wl2 |-> 0, iss |-> ISS],
           !.tcp   = [source_port |-> q.dst, destination_port |-> q.src,
                      sequence_number |-> ISS, acknowledgment_number |-> rnxt,
                      window_size |-> SendWnd,
                      syn |-> TRUE, ack |-> TRUE, fin |-> FALSE, rst |-> FALSE],
           !.ip    = [source |-> q.dst, destination |-> q.src,
                      payload_len |-> TcpHeaderLen]]

\* write, lines 147..155: the template is stamped before anything is sent
WriteStamp(c, n) ==
    [c EXCEPT !.tcp.sequence_number = c.send.nxt,
              !.tcp.acknowledgment_number = c.recv.nxt,
              !.ip.payload_len = TcpHeaderLen + n]

\* write, lines 163..166: a slice takes what fits of the payload
PayloadBytes(n) == IF n <= MaxPayload THEN n ELSE MaxPayload

\* write, line 169: the datagram given to iface.send
Datagram(c, n) ==
    LET s == WriteStamp(c, n)
    IN  [src |-> s.ip.source, dst |-> s.ip.destination,
         seq |-> s.tcp.sequence_number, ackn |-> s.tcp.acknowledgment_number,
         wnd |-> s.tcp.window_size,
         syn |-> s.tcp.syn, ack |-> s.tcp.ack, fin |-> s.tcp.fin, rst |-> s.tcp.rst,
         ip_payload_len |-> s.ip.payload_len,
         len |-> PayloadBytes(n)]

\* send.nxt advanced by payload.len() instead of the bytes put in the buffer
AdvanceNxt_len(c, n) ==
    LET a == wrapping_add(c.send.nxt, n)
        b == IF c.tcp.syn THEN wrapping_add(a, 1) ELSE a
    IN  IF c.tcp.fin THEN wrapping_add(b, 1) ELSE b

\* write, lines 171..181: send.nxt after a transmitted segment
AdvanceNxt(c, n) ==
    LET a == wrapping_add(c.send.nxt, PayloadBytes(n))
        b == IF c.tcp.syn THEN wrapping_add(a, 1) ELSE a
    IN  IF c.tcp.fin THEN wrapping_add(b, 1) ELSE b

\* the template with SYN left set after it was counted
ClearFlags_fin_only(t) == [t EXCEPT !.fin = FALSE]

\* write, lines 173..181: SYN and FIN are cleared once counted
ClearFlags(t) == [t EXCEPT !.syn = FALSE, !.fin = FALSE]

\* write counting the segment before iface.send has taken it
write_advance_before_send(c, n, ok) ==
    LET s == WriteStamp(c, n)
        t == [s EXCEPT !.send.nxt = AdvanceNxt(s, n), !.tcp = ClearFlags(s.tcp)]
    IN  IF ok
        THEN [ret |-> "Ok", n |-> PayloadBytes(n), conn |-> t,
              out |-> <<Datagram(c, n)>>]
        ELSE [ret |-> "Err", n |-> 0, conn |-> t, out |-> <<>>]

\* Connection::write; ok is the outcome of iface.send
write(c, n, ok) ==
    LET s == WriteStamp(c, n)
    IN  IF ok
        THEN [ret  |-> "Ok", n |-> PayloadBytes(n),
              conn |-> [s EXCEPT !.send.nxt = AdvanceNxt(s, n),
                                 !.tcp = ClearFlags(s.tcp)],
              out  |-> <<Datagram(c, n)>>]
        ELSE [ret  |-> "Err", n |-> 0, conn |-> s, out |-> <<>>]

\* Connection::send_rst
send_rst(c, ok) ==
    LET r == [c EXCEPT !.tcp.rst = TRUE,
                       !.tcp.sequence_number = 0,
                       !.tcp.acknowledgment_number = 0,
                       !.ip.payload_len = TcpHeaderLen]
    IN  write(r, 0, ok)

\* accept without the test of tcph.syn()
accept_any_segment(q, seg, ok, bld) ==
    IF AcceptOverflows(seg) /\ bld = "debug"
    THEN [ret |-> "panic", exit |-> "overflow", conn |-> NoConn, out |-> <<>>]
    ELSE LET w == write(AcceptInit(q, seg), 0, ok)
         IN  IF w.ret = "Ok"
             THEN [ret |-> "Ok(Some)", exit |-> "end", conn |-> w.conn, out |-> w.out]
             ELSE [ret |-> "Err", exit |-> "write", conn |-> NoConn, out |-> <<>>]

\* Connection::accept; bld is the build, ok the outcome of iface.send
accept(q, seg, ok, bld) ==
    IF ~seg.syn
    THEN [ret |-> "Ok(None)", exit |-> "not_syn", conn |-> NoConn, out |-> <<>>]
    ELSE IF AcceptOverflows(seg) /\ bld = "debug"
    THEN [ret |-> "panic", exit |-> "overflow", conn |-> NoConn, out |-> <<>>]
    ELSE LET w == write(AcceptInit(q, seg), 0, ok)
         IN  IF w.ret = "Ok"
             THEN [ret |-> "Ok(Some)", exit |-> "end", conn |-> w.conn, out |-> w.out]
             ELSE [ret |-> "Err", exit |-> "write", conn |-> NoConn, out |-> <<>>]

\* on_packet, lines 213..216
AckAcceptable(c, seg) ==
    is_between_wrapped(c.send.una, seg.ackn, wrapping_add(c.send.nxt, 1))

\* on_packet, lines 239..245
SegLen(seg) == seg.len + (IF seg.syn \/ seg.fin THEN 1 ELSE 0)

\* the window test without the branches for a closed window
SeqAcceptable_no_zero_window(c, seg) ==
    LET wend == wrapping_add(c.recv.nxt, c.recv.wnd)
        slen == SegLen(seg)
    IN  IF seg.len = 0
        THEN is_between_wrapped(wrapping_sub(c.recv.nxt, 1), seg.seq, wend)
        ELSE \/ is_between_wrapped(wrapping_sub(c.recv.nxt, 1), seg.seq, wend)
             \/ is_between_wrapped(c.recv.nxt,
                                   wrapping_add(seg.seq, slen - 1), wend)

\* on_packet, lines 235..263
SeqAcceptable(c, seg) ==
    LET wend == wrapping_add(c.recv.nxt, c.recv.wnd)
        slen == SegLen(seg)
    IN  IF seg.len = 0
        THEN IF c.recv.wnd = 0
             THEN seg.seq = c.recv.nxt
             ELSE is_between_wrapped(wrapping_sub(c.recv.nxt, 1), seg.seq, wend)
        ELSE IF c.recv.wnd = 0
             THEN FALSE
             ELSE \/ is_between_wrapped(wrapping_sub(c.recv.nxt, 1), seg.seq, wend)
                  \/ is_between_wrapped(c.recv.nxt,
                                        wrapping_add(seg.seq, slen - 1), wend)

\* on_packet: the return it leaves by
OnPacketExit(c, seg) ==
    IF ~AckAcceptable(c, seg) THEN "ack"
    ELSE IF ~SeqAcceptable(c, seg) THEN "seq"
    ELSE IF c.state = "SynRcvd" /\ ~seg.ack THEN "state"
    ELSE "end"

\* on_packet moving to Estab on any ACK, before the segment is checked
OnPacketConn_unchecked(c, seg) ==
    IF seg.ack THEN [c EXCEPT !.state = "Estab"] ELSE c

\* on_packet, lines 265..273: the match arms assign nothing
OnPacketConn(c, seg) == c

\* on_packet answering each segment it takes with the cached template
on_packet_replying(c, seg) ==
    [ret |-> "Ok", exit |-> OnPacketExit(c, seg),
     conn |-> OnPacketConn(c, seg),
     out |-> IF OnPacketExit(c, seg) = "end" THEN <<Datagram(c, 0)>> ELSE <<>>]

\* Connection::on_packet: every path returns Ok(()) and none calls write
on_packet(c, seg) ==
    [ret |-> "Ok", exit |-> OnPacketExit(c, seg),
     conn |-> OnPacketConn(c, seg), out |-> <<>>]

-----------------------------------------------------------------------------
(* The record of the handler that ran last *)

NoSeg == [syn |-> FALSE, ack |-> FALSE, fin |-> FALSE,
          seq |-> 0, ackn |-> 0, wnd |-> 0, len |-> 0]

NoLast == [op |-> "none", q |-> [src |-> "nobody", dst |-> "local"], seg |-> NoSeg,
           payload |-> 0, ok |-> TRUE, pre |-> NoConn, exit |-> "none",
           ret |-> "none", n |-> 0, sent |-> 0]

NoCmp == [start |-> 0, x |-> 0, end |-> 0, res |-> FALSE, incl |-> FALSE,
          done |-> FALSE]

Running == status = "running"

\* last.ok is the outcome of iface.send offered to the handler (on_packet
\* never sends)

\* main goes on to the next datagram after an io::Error of a handler
StatusAfter_ignore_err(ret) ==
    IF ret = "panic" THEN "panic" ELSE "running"

\* ? on an io::Result ends main; a panic ends the process
StatusAfter(ret) ==
    IF ret = "Err" THEN "io_error"
    ELSE IF ret = "panic" THEN "panic"
    ELSE "running"

-----------------------------------------------------------------------------
(* main.rs: the receive loop, one action per iteration *)

\* iface.recv(&mut buf)? fails
RecvError ==
    /\ Running
    /\ status' = "io_error"
    /\ last' = [NoLast EXCEPT !.op = "recv", !.ret = "Err", !.exit = "recv"]
    /\ UNCHANGED <<connections, wire, build, cmp>>

\* a datagram that does not parse ends the loop like a transport error
Drop_fatal(why) ==
    /\ Running
    /\ status' = IF why = "not_tcp" THEN status ELSE "io_error"
    /\ last' = [NoLast EXCEPT !.op = "drop", !.exit = why, !.ret = "Err"]
    /\ UNCHANGED <<connections, wire, build, cmp>>

\* the datagram is no IPv4 packet, no TCP, or its TCP header does not parse
Drop(why) ==
    /\ Running
    /\ last' = [NoLast EXCEPT !.op = "drop", !.exit = why, !.ret = "continue"]
    /\ UNCHANGED <<connections, wire, status, build, cmp>>

\* a SYN for an occupied entry given to accept, whose connection replaces it
DispatchOnPacket_reaccept(q, seg) ==
    /\ Running
    /\ connections[q] # NoConn
    /\ LET r == IF seg.syn
                THEN accept(q, seg, TRUE, "release")
                ELSE on_packet(connections[q], seg)
       IN  /\ connections' = [connections EXCEPT ![q] = r.conn]
           /\ wire' = wire \o r.out
           /\ status' = StatusAfter(r.ret)
           /\ last' = [op |-> IF seg.syn THEN "accept" ELSE "on_packet",
                       q |-> q, seg |-> seg,
                       payload |-> 0, ok |-> TRUE, pre |-> connections[q],
                       exit |-> r.exit, ret |-> r.ret,
                       n |-> 0, sent |-> Len(r.out)]
    /\ UNCHANGED <<build, cmp>>

\* Entry::Occupied: on_packet of the entry
DispatchOnPacket(q, seg) ==
    /\ Running
    /\ connections[q] # NoConn
    /\ LET r == on_packet(connections[q], seg)
       IN  /\ connections' = [connections EXCEPT ![q] = r.conn]
           /\ wire' = wire \o r.out
           /\ status' = StatusAfter(r.ret)
           /\ last' = [op |-> "on_packet", q |-> q, seg |-> seg,
                       payload |-> 0, ok |-> TRUE, pre |-> connections[q],
                       exit |-> r.exit, ret |-> r.ret,
                       n |-> 0, sent |-> Len(r.out)]
    /\ UNCHANGED <<build, cmp>>

\* Entry::Vacant: accept, and insert what it returns
DispatchAccept(q, seg, ok) ==
    /\ Running
    /\ connections[q] = NoConn
    /\ LET r == accept(q, seg, ok, build)
       IN  /\ connections' = IF r.ret = "Ok(Some)"
                             THEN [connections EXCEPT ![q] = r.conn]
                             ELSE connections
           /\ wire' = wire \o r.out
           /\ status' = StatusAfter(r.ret)
           /\ last' = [op |-> "accept", q |-> q, seg |-> seg,
                       payload |-> 0, ok |-> ok, pre |-> NoConn,
                       exit |-> r.exit, ret |-> r.ret,
                       n |-> 0, sent |-> Len(r.out)]
    /\ UNCHANGED <<build, cmp>>

Init ==
    /\ connections = [q \in Quads |-> NoConn]
    /\ wire = <<>>
    /\ status = "running"
    /\ build \in {"debug", "release"}
    /\ last = NoLast
    /\ cmp = NoCmp

Next ==
    \/ RecvError
    \/ \E why \in {"bad_ip", "not_tcp", "bad_tcp"} : Drop(why)
    \/ \E q \in Quads, seg \in LoopSegments : DispatchOnPacket(q, seg)
    \/ \E q \in Quads, seg \in LoopSegments, ok \in BOOLEAN : DispatchAccept(q, seg, ok)

Spec == Init /\ [][Next]_vars


-----------------------------------------------------------------------------
(* on_packet on its own: a connection as accept leaves it, whose send.nxt   *)
(* later writes have moved, is given one segment.  The build without       *)
(* overflow checks accepts every SYN, so its connections include those of  *)
(* the build with them.                                                     *)

\* the quad of the connection under test
Q1 == [src |-> "peer1", dst |-> "local"]

\* a SYN with sequence number s announcing window w
SynSeg(s, w) == [NoSeg EXCEPT !.syn = TRUE, !.seq = s, !.wnd = w]

InitSeg ==
    /\ build = "release"
    /\ \E s \in SeqVals, w \in WndVals, n \in SendNxts :
         LET r == accept(Q1, SynSeg(s, w), TRUE, build)
         IN  /\ r.ret = "Ok(Some)"
             /\ connections = [q \in Quads |->
                                IF q = Q1 THEN [r.conn EXCEPT !.send.nxt = n]
                                ELSE NoConn]
    /\ wire = <<>>
    /\ status = "running"
    /\ last = NoLast
    /\ cmp = NoCmp

CallOnPacket(q, seg) ==
    /\ last.op = "none"
    /\ DispatchOnPacket(q, seg)

NextSeg == \E q \in Quads, seg \in Segments : CallOnPacket(q, seg)

SpecSeg == InitSeg /\ [][NextSeg]_vars

-----------------------------------------------------------------------------
(* write and send_rst on their own: the connection's send.nxt and the       *)
(* template's SYN and FIN flags are the inputs                              *)

InitWrite ==
    /\ build = "debug"
    /\ \E n \in SendNxts, syn \in BOOLEAN, fin \in BOOLEAN :
         LET r == accept(Q1, SynSeg(0, 1), TRUE, build)
         IN  connections = [q \in Quads |->
                             IF q = Q1
                             THEN [r.conn EXCEPT !.send.nxt = n,
                                                 !.tcp.syn = syn, !.tcp.fin = fin]
                             ELSE NoConn]
    /\ wire = <<>>
    /\ status = "running"
    /\ last = NoLast
    /\ cmp = NoCmp

\* the caller of write or send_rst gets r back; what was sent is on the wire
Called(op, q, n, ok, r) ==
    /\ connections' = [connections EXCEPT ![q] = r.conn]
    /\ wire' = wire \o r.out
    /\ last' = [op |-> op, q |-> q, seg |-> NoSeg, payload |-> n, ok |-> ok,
                pre |-> connections[q], exit |-> "end", ret |-> r.ret,
                n |-> r.n, sent |-> Len(r.out)]
    /\ UNCHANGED <<status, build, cmp>>

CallWrite(q, n, ok) ==
    /\ connections[q] # NoConn
    /\ Len(wire) < MaxWire
    /\ Called("write", q, n, ok, write(connections[q], n, ok))

CallSendRst(q, ok) ==
    /\ connections[q] # NoConn
    /\ Len(wire) < MaxWire
    /\ Called("send_rst", q, 0, ok, send_rst(connections[q], ok))

\* segments arriving between the writes: empty, at recv.nxt, acknowledging
\* what accept sent and the sequence number after it
WriteSegs ==
    [syn : {FALSE}, ack : {TRUE}, fin : {FALSE},
     seq : {1}, ackn : {2, 3}, wnd : {0}, len : {0}]

\* a segment arrives for the connection while it still has writes to make
PacketBetweenWrites(q, seg) ==
    /\ Len(wire) < MaxWire
    /\ DispatchOnPacket(q, seg)

NextWrite ==
    \/ \E q \in Quads, n \in PayloadLens, ok \in BOOLEAN : CallWrite(q, n, ok)
    \/ \E q \in Quads, ok \in BOOLEAN : CallSendRst(q, ok)
    \/ \E q \in Quads, seg \in WriteSegs : PacketBetweenWrites(q, seg)

SpecWrite == InitWrite /\ [][NextWrite]_vars

-----------------------------------------------------------------------------
(* is_between_wrapped on its own *)

\* the sampled words and the operands of the documented examples
CmpVals == SeqVals \cup {2, 3, 5, 10, 20, Modulus - 6}

InitCmp ==
    /\ connections = [q \in Quads |-> NoConn]
    /\ wire = <<>>
    /\ status = "running"
    /\ build = "debug"
    /\ last = NoLast
    /\ cmp \in [start : CmpVals, x : CmpVals, end : CmpVals,
                 res : {FALSE}, incl : {FALSE}, done : {FALSE}]

Compare ==
    /\ ~cmp.done
    /\ cmp' = [cmp EXCEPT !.res = is_between_wrapped(cmp.start, cmp.x, cmp.end),
                          !.incl = is_between_wrapped_inclusive(cmp.start, cmp.x,
                                                                cmp.end),
                          !.done = TRUE]
    /\ UNCHANGED <<connections, wire, status, build, last>>

NextCmp == Compare

SpecCmp == InitCmp /\ [][NextCmp]_vars


-----------------------------------------------------------------------------
(* The properties *)

\* how far b lies ahead of a on the circle of sequence numbers
Dist(a, b) == (b - a + Modulus) % Modulus

\* y lies in the half-open circular range [c.recv.nxt, c.recv.nxt + c.recv.wnd)
InWindow(c, y) == Dist(c.recv.nxt, y) < c.recv.wnd

\* the last handler was on_packet, of the entry of last.q
WasOnPacket == last.op = "on_packet"

\* the last datagram on the wire
LastSent == wire[Len(wire)]

\* C1: a segment that carries ACK and passes the ACK check and the window
\* check, handled by on_packet in SynRcvd, leaves the connection in Estab.
C1_HandshakeCompletes ==
    (/\ WasOnPacket
     /\ last.pre.state = "SynRcvd"
     /\ last.seg.ack
     /\ AckAcceptable(last.pre, last.seg)
     /\ SeqAcceptable(last.pre, last.seg))
    => connections[last.q].state = "Estab"

\* C2: accept on a SYN with sequence number s and window w, when the
\* transport takes the reply, returns a connection in SynRcvd with
\* recv.irs = s, recv.nxt = s + 1 and recv.wnd = w, and has emitted exactly
\* one segment, with SYN and ACK set and acknowledging recv.nxt.
C2_AcceptOnSyn ==
    (/\ last.op = "accept"
     /\ last.seg.syn
     /\ last.ret # "Err")
    => /\ last.ret = "Ok(Some)"
       /\ connections[last.q] # NoConn
       /\ connections[last.q].state = "SynRcvd"
       /\ connections[last.q].recv.irs = last.seg.seq
       /\ connections[last.q].recv.nxt = (last.seg.seq + 1) % Modulus
       /\ connections[last.q].recv.wnd = last.seg.wnd
       /\ last.sent = 1
       /\ LastSent.syn /\ LastSent.ack
       /\ LastSent.ackn = connections[last.q].recv.nxt

\* C3: a segment that fails the ACK check or the window check, or that
\* carries no ACK while the connection is in SynRcvd, changes nothing of the
\* connection (state, send and receive space, header template), emits
\* nothing, and on_packet returns Ok: the loop goes on.
C3_InadmissibleDropped ==
    (/\ WasOnPacket
     /\ \/ ~AckAcceptable(last.pre, last.seg)
        \/ ~SeqAcceptable(last.pre, last.seg)
        \/ (last.pre.state = "SynRcvd" /\ ~last.seg.ack)
        \/ last.exit # "end")
    => /\ connections[last.q] = last.pre
       /\ last.sent = 0
       /\ last.ret = "Ok"
       /\ status = "running"

\* C3 happens: a segment without ACK passed both checks in SynRcvd, and was
\* dropped at the state's gate.
C3_Witness ==
    /\ WasOnPacket
    /\ last.exit = "state"
    /\ last.pre.state = "SynRcvd"
    /\ ~last.seg.ack

\* C4: on_packet passes the ACK check if and only if
\* 0 < (ackn - send.una) mod 2^32 <= (send.nxt - send.una) mod 2^32.
C4_AckAcceptableIff ==
    WasOnPacket =>
        ((last.exit # "ack")
         <=> (/\ 0 < Dist(last.pre.send.una, last.seg.ackn)
              /\ Dist(last.pre.send.una, last.seg.ackn)
                   <= Dist(last.pre.send.una, last.pre.send.nxt)))

\* C5: a segment that takes sequence space (payload, SYN or FIN) is rejected
\* by the window check whenever recv.wnd = 0, whatever its sequence number.
C5_ZeroWindowRejects ==
    (/\ WasOnPacket
     /\ AckAcceptable(last.pre, last.seg)
     /\ SegLen(last.seg) > 0
     /\ last.pre.recv.wnd = 0)
    => last.exit = "seq"

\* C6: with slen > 0 and recv.wnd > 0 the segment passes the window check if
\* and only if its first or its last sequence number lies in
\* [recv.nxt, recv.nxt + recv.wnd).
C6_WindowIff ==
    (/\ WasOnPacket
     /\ AckAcceptable(last.pre, last.seg)
     /\ SegLen(last.seg) > 0
     /\ last.pre.recv.wnd > 0)
    => ((last.exit # "seq")
        <=> \/ InWindow(last.pre, last.seg.seq)
            \/ InWindow(last.pre,
                        wrapping_add(last.seg.seq, SegLen(last.seg) - 1)))

\* C7: a segment with no payload, no SYN and no FIN passes the window check,
\* if recv.wnd = 0, exactly when seqn = recv.nxt, and if recv.wnd > 0,
\* exactly when recv.nxt <= seqn < recv.nxt + recv.wnd on the circle.
C7_ZeroLengthWindow ==
    (/\ WasOnPacket
     /\ AckAcceptable(last.pre, last.seg)
     /\ SegLen(last.seg) = 0)
    => ((last.exit # "seq")
        <=> IF last.pre.recv.wnd = 0
            THEN last.seg.seq = last.pre.recv.nxt
            ELSE InWindow(last.pre, last.seg.seq))

\* C7 happens: under a closed window the empty segment one past recv.nxt was
\* rejected by the window check.
C7_Witness ==
    /\ WasOnPacket
    /\ last.exit = "seq"
    /\ SegLen(last.seg) = 0
    /\ last.pre.recv.wnd = 0
    /\ last.seg.seq = wrapping_add(last.pre.recv.nxt, 1)

\* C8: is_between_wrapped(start, x, end) is true if and only if
\* 0 < (x - start) mod 2^w < (end - start) mod 2^w; so (5, 10, 20) is true,
\* (5, 3, 20) is false and (2^w - 6, 2, 10) is true.
C8_ComparatorIff ==
    cmp.done =>
        /\ cmp.res <=> (/\ 0 < Dist(cmp.start, cmp.x)
                        /\ Dist(cmp.start, cmp.x) < Dist(cmp.start, cmp.end))
        /\ (cmp.start = 5 /\ cmp.x = 10 /\ cmp.end = 20) => cmp.res
        /\ (cmp.start = 5 /\ cmp.x = 3 /\ cmp.end = 20) => ~cmp.res
        /\ (cmp.start = Modulus - 6 /\ cmp.x = 2 /\ cmp.end = 10) => cmp.res

\* C8 happens: the comparator was applied to the wrapping example, and said
\* true.
C8_Witness ==
    /\ cmp.done
    /\ cmp.start = Modulus - 6 /\ cmp.x = 2 /\ cmp.end = 10
    /\ cmp.res

\* what a transmitted datagram costs in sequence numbers
Cost(d) == d.len + (IF d.syn THEN 1 ELSE 0) + (IF d.fin THEN 1 ELSE 0)

\* C9: a successful write advances send.nxt by the bytes written plus one for
\* a SYN and one for a FIN set in the template (so by exactly 1 when one of
\* them is set and the payload is empty) and clears both flags; over the
\* writes of a connection only the first datagram can carry SYN or FIN, every
\* datagram starts where the one before it ended, and send.nxt is where the
\* last one ended.
C9_ConsumeAndClear ==
    /\ (last.op = "write" /\ last.ret = "Ok") =>
         /\ connections[last.q].send.nxt =
              wrapping_add(last.pre.send.nxt,
                           last.n + (IF last.pre.tcp.syn THEN 1 ELSE 0)
                                  + (IF last.pre.tcp.fin THEN 1 ELSE 0))
         /\ ~connections[last.q].tcp.syn
         /\ ~connections[last.q].tcp.fin
         /\ (last.payload = 0 /\ last.pre.tcp.syn # last.pre.tcp.fin) =>
              connections[last.q].send.nxt = wrapping_add(last.pre.send.nxt, 1)
    /\ \A i \in 2..Len(wire) :
         /\ ~wire[i].syn /\ ~wire[i].fin
         /\ wire[i].seq = wrapping_add(wire[i - 1].seq, Cost(wire[i - 1]))
    /\ Len(wire) > 0 =>
         connections[Q1].send.nxt = wrapping_add(LastSent.seq, Cost(LastSent))

\* C9 happens: a write of an empty payload went out with SYN, and the write
\* after it went out with a payload.
C9_Witness ==
    /\ Len(wire) = 2
    /\ wire[1].syn /\ ~wire[1].fin /\ wire[1].len = 0
    /\ last.op = "write" /\ last.ret = "Ok"
    /\ wire[2].len > 0

\* C10 as stated: a successful write of N bytes with SYN and FIN clear
\* returns N, transmits N payload bytes in one segment and advances send.nxt
\* by exactly N, for every N.
C10_WritesAllBytes ==
    (/\ last.op = "write" /\ last.ret = "Ok"
     /\ ~last.pre.tcp.syn /\ ~last.pre.tcp.fin)
    => /\ last.n = last.payload
       /\ last.sent = 1
       /\ LastSent.len = last.payload
       /\ connections[last.q].send.nxt
            = wrapping_add(last.pre.send.nxt, last.payload)

\* C10 amended: a successful write of N bytes with SYN and FIN clear returns
\* min(N, 1460), the room the 1500-byte buffer leaves after the two headers,
\* transmits that many payload bytes in one segment and advances send.nxt by
\* exactly that number, with no additional increment.
C10_WritesWhatFits ==
    (/\ last.op = "write" /\ last.ret = "Ok"
     /\ ~last.pre.tcp.syn /\ ~last.pre.tcp.fin)
    => /\ last.n = (IF last.payload <= MaxPayload THEN last.payload ELSE MaxPayload)
       /\ last.sent = 1
       /\ LastSent.len = last.n
       /\ connections[last.q].send.nxt = wrapping_add(last.pre.send.nxt, last.n)

\* C10 happens: a payload one byte longer than the buffer's room was written
\* with SYN and FIN clear.
C10_Witness ==
    /\ last.op = "write" /\ last.ret = "Ok"
    /\ ~last.pre.tcp.syn /\ ~last.pre.tcp.fin
    /\ last.payload = MaxPayload + 1


\* C11: send_rst, when the transport takes the segment, transmits exactly
\* one segment, which has RST set and sequence number and acknowledgment
\* number both zero, and leaves the connection's state as it was.
C11_RstIsZeroed ==
    (last.op = "send_rst" /\ last.ret = "Ok")
    => /\ last.sent = 1
       /\ LastSent.rst
       /\ LastSent.seq = 0
       /\ LastSent.ackn = 0
       /\ connections[last.q].state = last.pre.state


\* the quads with a connection in the table
Occupied == {q \in Quads : connections[q] # NoConn}

\* C12: accept on a segment without SYN, for a quad that is not in the
\* table, returns no connection and no error, emits no segment and leaves
\* the table as it was; the loop goes on.
C12_NonSynIsNoEvent ==
    [][(last'.op = "accept" /\ ~last'.seg.syn)
       => /\ connections[last'.q] = NoConn
          /\ last'.ret = "Ok(None)"
          /\ last'.sent = 0
          /\ wire' = wire
          /\ connections' = connections
          /\ status' = "running"]_vars

\* C12 happens: with a connection in the table, accept was given a segment
\* without SYN for the other quad and returned no connection.
C12_Witness ==
    /\ last.op = "accept"
    /\ ~last.seg.syn
    /\ last.ret = "Ok(None)"
    /\ Occupied # {}
    /\ connections[last.q] = NoConn

\* C13: a datagram whose quad is absent from the table is given to accept,
\* and what accept returns is inserted under that quad and nothing else
\* changes; a datagram whose quad is present is given to on_packet of that
\* entry and never to accept; an entry once inserted is never removed, and
\* its recv.irs never changes.
C13_RouterDispatch ==
    [][/\ \A q \in Quads :
            connections[q] # NoConn
            => /\ connections'[q] # NoConn
               /\ connections'[q].recv.irs = connections[q].recv.irs
       /\ last'.op = "accept"
            => /\ connections[last'.q] = NoConn
               /\ (connections'[last'.q] # NoConn) <=> (last'.ret = "Ok(Some)")
               /\ \A q \in Quads \ {last'.q} : connections'[q] = connections[q]
       /\ last'.op = "on_packet"
            => /\ connections[last'.q] # NoConn
               /\ last'.pre = connections[last'.q]
               /\ \A q \in Quads \ {last'.q} : connections'[q] = connections[q]
       /\ connections' # connections => last'.op \in {"accept", "on_packet"}]_vars

\* C13 happens: a SYN with another sequence number arrived on a quad that
\* has a connection, and was given to on_packet.
C13_Witness ==
    /\ last.op = "on_packet"
    /\ last.seg.syn
    /\ last.seg.seq # last.pre.recv.irs
    /\ connections[last.q].recv.irs = last.pre.recv.irs

\* C14: a datagram whose IPv4 or TCP header does not parse, or that is not
\* TCP, is given to neither accept nor on_packet, leaves the table and every
\* connection as they were, emits nothing, and the loop goes on.
C14_MalformedDropped ==
    [][last'.op = "drop"
       => /\ connections' = connections
          /\ wire' = wire
          /\ status' = "running"]_vars

\* C14 happens: with a connection in the table, a datagram whose TCP header
\* does not parse was dropped and the loop is running.
C14_Witness ==
    /\ last.op = "drop"
    /\ last.exit = "bad_tcp"
    /\ Occupied # {}
    /\ status = "running"


\* C15: when iface.send fails while accept transmits the SYN-ACK, accept
\* returns the error, no connection is inserted for the quad, nothing is
\* emitted and the receive loop ends; a failed iface.recv ends the loop as
\* well; once the loop has ended no further datagram is processed.
C15_TransportFailureFatal ==
    [][/\ status = "running"
       /\ (last'.op = "accept" /\ last'.seg.syn /\ ~last'.ok
           /\ last'.exit # "overflow")
            => /\ last'.ret = "Err"
               /\ connections[last'.q] = NoConn
               /\ connections' = connections
               /\ wire' = wire
               /\ status' = "io_error"
       /\ last'.op = "recv"
            => /\ status' = "io_error"
               /\ connections' = connections
               /\ wire' = wire]_vars

\* C15 happens: with a connection in the table, the send of the SYN-ACK for
\* the other quad failed and the loop has ended.
C15_Witness ==
    /\ last.op = "accept"
    /\ last.seg.syn
    /\ ~last.ok
    /\ last.ret = "Err"
    /\ Occupied # {}
    /\ connections[last.q] = NoConn
    /\ status = "io_error"


\* C16: after a successful accept, send.una = send.iss and
\* send.nxt = send.iss + 1, the SYN-ACK that was emitted carries sequence
\* number send.iss, and the only acknowledgment number in
\* (send.una, send.nxt] is the emitted sequence number + 1.
C16_HandshakeSynCost ==
    (last.op = "accept" /\ last.ret = "Ok(Some)")
    => LET c == connections[last.q]
       IN  /\ c.send.una = c.send.iss
           /\ c.send.nxt = wrapping_add(c.send.iss, 1)
           /\ LastSent.seq = c.send.iss
           /\ \A a \in AckVals :
                  (Dist(c.send.una, a) >= 1
                   /\ Dist(c.send.una, a) <= Dist(c.send.una, c.send.nxt))
                  <=> a = wrapping_add(LastSent.seq, 1)

\* the segments on the wire addressed to the peer of quad q
SentTo(q) == {i \in 1..Len(wire) : wire[i].dst = q.src}

\* C19: the number of segments emitted by the receive loop equals the
\* number of connections in the table; each quad has caused at most one
\* segment, a SYN-ACK, and only if it has a connection; on_packet has
\* emitted nothing, whether it took the segment or rejected it.
C19_OneReplyPerQuad ==
    /\ Len(wire) = Cardinality(Occupied)
    /\ \A q \in Quads :
          /\ Cardinality(SentTo(q)) <= 1
          /\ (SentTo(q) # {}) <=> (q \in Occupied)
          /\ \A i \in SentTo(q) : wire[i].syn /\ wire[i].ack
    /\ WasOnPacket => (last.sent = 0 /\ last.ret = "Ok")

\* C19 happens: a SYN arrived again on a quad that has a connection, was
\* given to on_packet, and the wire still holds the one SYN-ACK.
C19_Witness ==
    /\ WasOnPacket
    /\ last.seg.syn
    /\ last.pre.recv.irs # last.seg.seq
    /\ Len(wire) = 1
    /\ Cardinality(Occupied) = 1

\* C20: accept on a SYN with sequence number 2^32 - 1, when the transport
\* takes the reply, completes, and yields recv.irs = 2^32 - 1 and
\* recv.nxt = 0, and the emitted SYN-ACK acknowledges 0.
C20_AcceptAtCeiling ==
    (/\ last.op = "accept"
     /\ last.seg.syn
     /\ last.seg.seq = Modulus - 1
     /\ last.ok)
    => /\ last.ret = "Ok(Some)"
       /\ connections[last.q].recv.irs = Modulus - 1
       /\ connections[last.q].recv.nxt = 0
       /\ last.sent = 1
       /\ LastSent.ackn = 0


\* C17: is_between_wrapped(start - 1, x, end + 1), with wrapping -1 and +1,
\* is true if and only if x lies in the circular closed range [start, end],
\* that is (x - start) mod 2^w <= (end - start) mod 2^w, also where end + 1
\* and start - 1 coincide.
C17_InclusiveIdiom ==
    cmp.done =>
        (cmp.incl <=> Dist(cmp.start, cmp.x) <= Dist(cmp.start, cmp.end))


\* C18: when iface.send fails inside write, write returns the error with
\* send.nxt unchanged and the template's SYN and FIN flags as they were, and
\* nothing is put on the wire; a call changes send.nxt of its connection
\* only if it is a write whose transmit succeeded, and on_packet never does.
\* last.pre is the connection of last.q as it was before the call.
C18_FailedWriteKeepsSeq ==
    last.op \in {"write", "send_rst", "on_packet"}
    => LET c == connections[last.q]
       IN  /\ (last.op \in {"write", "send_rst"} /\ ~last.ok)
                => /\ last.ret = "Err"
                   /\ c.send = last.pre.send
                   /\ c.tcp.syn = last.pre.tcp.syn
                   /\ c.tcp.fin = last.pre.tcp.fin
                   /\ last.sent = 0
           /\ c.send.nxt # last.pre.send.nxt
                => /\ last.op \in {"write", "send_rst"}
                   /\ last.ret = "Ok"
                   /\ last.sent = 1
           /\ last.op = "on_packet" => c.send = last.pre.send

\* C18 happens: a write of payload with SYN set in the template failed, and
\* the connection still has the send.nxt and the SYN flag it had before.
C18_Witness ==
    /\ last.op = "write"
    /\ last.ret = "Err"
    /\ last.payload > 0
    /\ last.pre.tcp.syn
    /\ connections[last.q].tcp.syn
    /\ connections[last.q].send.nxt = last.pre.send.nxt

=============================================================================
